---- MODULE Spec2Model ----
(***************************************************************************)
(* Pictensor subnet template: the peer sampler (template/utils/uids.py)    *)
(* and the mock transport (template/mock.py), as state machines.           *)
(*                                                                         *)
(*   Spec          the registry snapshot, check_uid_availability and        *)
(*                 get_random_uids                                          *)
(*   SpecSeeded    get_random_uids run twice from the same generator state  *)
(*   SpecDendrite  MockDendrite.forward: one task per axon, joined by       *)
(*                 asyncio.gather                                           *)
(*   SpecValidator one validator cycle (template/validator/forward.py):     *)
(*                 sample, query the dendrite, reward, update the scores    *)
(*   SpecValidatorCycles  the same, with a new cycle after a failed one     *)
(*   SpecMiner     Miner.blacklist (neurons/miner.py)                       *)
(*   SpecPing      ping_uids (template/api/get_query_axons.py) over the     *)
(*                 mock dendrite                                            *)
(***************************************************************************)
EXTENDS Integers, Sequences, FiniteSets, TLC

VARIABLES
    metagraph,      \* registry snapshot: n, axons[uid].is_serving, validator_permit[uid], S[uid]
    config,         \* self.config.neuron: vpermit_tao_limit
    uids_call,      \* the last call into template/utils/uids.py, with its outcome
    dendrite,       \* MockDendrite attributes: min_time, max_time
    fwd,            \* the running MockDendrite.forward call: its arguments and position
    tasks,          \* one single_axon_response coroutine per input axon
    completed,      \* indices of the tasks in the order in which they finished
    returned,       \* what forward handed back to its caller
    validator,      \* the validator neuron and its running forward cycle
    last_call       \* the last call of Miner.blacklist or of ping_uids, with its outcome

sampler_vars == <<metagraph, config, uids_call>>
dendrite_vars == <<dendrite, fwd, tasks, completed, returned>>
vars == <<metagraph, config, uids_call, dendrite, fwd, tasks, completed, returned,
          validator, last_call>>

\* ------------------------------------------------------------------ bounds

\* registry snapshots hold at most MaxN entries
MaxN == 2
\* exclusion lists hold at most MaxExclude ids (duplicates and unknown ids included)
MaxExclude == 2
\* stake limits tried when check_uid_availability is called directly
MaxLimit == 2

\* seeded runs start from the generator states 0..MaxSeed
MaxSeed == 3

\* requests reach the miner from at most MaxHotkeys distinct hotkeys
MaxHotkeys == 2

\* a validator runs at most MaxCycles cycles
MaxCycles == 2

\* MockDendrite.forward is called with at most MaxAxons axons
MaxAxons == 2
\* simulated delays and timeouts, in clock ticks, go up to MaxTime
MaxTime == 2

\* an Optional[List[int]] argument: None, or a list
NoneArg == [is_none |-> TRUE, list |-> <<>>]
ListArg(l) == [is_none |-> FALSE, list |-> l]

\* ------------------------------------------------------------------ helpers

Min(a, b) == IF a < b THEN a ELSE b

Range(s) == {s[i] : i \in 1..Len(s)}

\* all lists of length at most n over the set S
ListsUpTo(S, n) == UNION {[1..m -> S] : m \in 0..n}

\* ------------------------------------------------------------------ registry

\* the configured limit and the stakes below it, at it and above it
DefaultVpermitTaoLimit == 1
Stakes == {DefaultVpermitTaoLimit - 1, DefaultVpermitTaoLimit, DefaultVpermitTaoLimit + 1}

Metagraphs ==
    UNION {
        [n : {m},
         axons : [0..(m - 1) -> [is_serving : BOOLEAN]],
         validator_permit : [0..(m - 1) -> BOOLEAN],
         S : [0..(m - 1) -> Stakes]]
        : m \in 0..MaxN}

\* ------------------------------------------------------------------ uids.py

check_uid_availability_ge(mg, uid, vpermit_tao_limit) ==
    IF ~mg.axons[uid].is_serving THEN FALSE
    ELSE IF mg.validator_permit[uid] /\ mg.S[uid] >= vpermit_tao_limit THEN FALSE
    ELSE TRUE

\* check_uid_availability(metagraph, uid, vpermit_tao_limit)
check_uid_availability(mg, uid, vpermit_tao_limit) ==
    IF ~mg.axons[uid].is_serving THEN FALSE
    ELSE IF mg.validator_permit[uid]
         THEN (IF mg.S[uid] > vpermit_tao_limit THEN FALSE ELSE TRUE)
         ELSE TRUE

\* random.sample(population, k): the set of its possible outcomes. It raises
\* ValueError when k is negative or larger than the population, and otherwise
\* returns k elements taken at distinct positions, in any order.
random_sample(population, k) ==
    IF k < 0 \/ k > Len(population)
    THEN {[raised |-> "ValueError", value |-> <<>>]}
    ELSE {[raised |-> "none", value |-> [i \in 1..k |-> population[p[i]]]] :
            p \in {q \in [1..k -> 1..Len(population)] :
                     \A i, j \in 1..k : i # j => q[i] # q[j]}}

\* The loop of get_random_uids over range(metagraph.n), from uid on: the
\* lists it appends to and the number of availability checks it makes.
RECURSIVE ScanFrom(_, _, _, _, _)
ScanFrom(mg, limit, exclude_set, uid, acc) ==
    IF uid >= mg.n THEN acc
    ELSE LET ok == check_uid_availability(mg, uid, limit)
             avail == IF ok THEN Append(acc.avail_uids, uid) ELSE acc.avail_uids
             cand == IF ok /\ uid \notin exclude_set
                     THEN Append(acc.candidate_uids, uid)
                     ELSE acc.candidate_uids
         IN ScanFrom(mg, limit, exclude_set, uid + 1,
                     [avail_uids |-> avail, candidate_uids |-> cand,
                      checked |-> acc.checked + 1])

Scan(mg, limit, exclude_set) ==
    ScanFrom(mg, limit, exclude_set, 0,
             [avail_uids |-> <<>>, candidate_uids |-> <<>>, checked |-> 0])

\* every available uid, excluded or not
excluded_available_all(avail_uids, exclude_set) == avail_uids

\* only the first of the excluded available uids
excluded_available_first(avail_uids, exclude_set) ==
    SubSeq(SelectSeq(avail_uids, LAMBDA uid : uid \in exclude_set), 1, 1)

\* [uid for uid in avail_uids if uid in exclude_set]
excluded_available(avail_uids, exclude_set) ==
    SelectSeq(avail_uids, LAMBDA uid : uid \in exclude_set)

\* no backfill at all: the pool stays the non-excluded available uids
Backfilled_none(candidate_uids, avail_uids, exclude_set, k) ==
    {[raised |-> "none", pool |-> candidate_uids]}

\* backfill that draws one uid too few
Backfilled_short(candidate_uids, avail_uids, exclude_set, k) ==
    IF Len(candidate_uids) < k
    THEN LET ea == excluded_available(avail_uids, exclude_set)
             needed == k - Len(candidate_uids)
         IN IF ea # <<>>
            THEN {[raised |-> r.raised, pool |-> candidate_uids \o r.value] :
                    r \in random_sample(ea, Min(needed, Len(ea)) - 1)}
            ELSE {[raised |-> "none", pool |-> candidate_uids]}
    ELSE {[raised |-> "none", pool |-> candidate_uids]}

\* backfill that asks for k uids instead of the shortfall
Backfilled_k(candidate_uids, avail_uids, exclude_set, k) ==
    IF Len(candidate_uids) < k
    THEN LET ea == excluded_available(avail_uids, exclude_set)
         IN IF ea # <<>>
            THEN {[raised |-> r.raised, pool |-> candidate_uids \o r.value] :
                    r \in random_sample(ea, k)}
            ELSE {[raised |-> "none", pool |-> candidate_uids]}
    ELSE {[raised |-> "none", pool |-> candidate_uids]}

\* backfill that pools the excluded available uids whether or not they are needed
Backfilled_always(candidate_uids, avail_uids, exclude_set, k) ==
    {[raised |-> "none",
      pool |-> candidate_uids \o excluded_available(avail_uids, exclude_set)]}

\* backfill that takes excluded uids in place of the non-excluded ones
Backfilled_replace(candidate_uids, avail_uids, exclude_set, k) ==
    IF Len(candidate_uids) < k
    THEN LET ea == excluded_available(avail_uids, exclude_set)
         IN IF ea # <<>>
            THEN {[raised |-> r.raised, pool |-> r.value] :
                    r \in random_sample(ea, Min(k, Len(ea)))}
            ELSE {[raised |-> "none", pool |-> candidate_uids]}
    ELSE {[raised |-> "none", pool |-> candidate_uids]}

\* The backfill step (lines 66-71): the candidate pools it can leave, or the
\* exception its random.sample raises.
Backfilled(candidate_uids, avail_uids, exclude_set, k) ==
    IF Len(candidate_uids) < k
    THEN LET ea == excluded_available(avail_uids, exclude_set)
             needed == k - Len(candidate_uids)
         IN IF ea # <<>>
            THEN {[raised |-> r.raised, pool |-> candidate_uids \o r.value] :
                    r \in random_sample(ea, Min(needed, Len(ea)))}
            ELSE {[raised |-> "none", pool |-> candidate_uids]}
    ELSE {[raised |-> "none", pool |-> candidate_uids]}

\* The end of the call once the backfill step is over (lines 73-77): the
\* second clamp and the final random.sample.
Finish(bf, k, scan) ==
    IF bf.raised # "none"
    THEN {[raised |-> bf.raised, uids |-> <<>>, checked |-> scan.checked,
           pool_size |-> Len(bf.pool), reclamped |-> FALSE,
           n_avail |-> Len(scan.avail_uids),
           n_candidates |-> Len(scan.candidate_uids)]}
    ELSE LET k2 == IF Len(bf.pool) < k THEN Len(bf.pool) ELSE k
         IN {[raised |-> r.raised, uids |-> r.value, checked |-> scan.checked,
              pool_size |-> Len(bf.pool), reclamped |-> (Len(bf.pool) < k),
              n_avail |-> Len(scan.avail_uids),
              n_candidates |-> Len(scan.candidate_uids)]
             : r \in random_sample(bf.pool, k2)}

\* a variant that validates k before it reads the registry
get_random_uids_validate_first(mg, limit, k, exclude) ==
    IF k < 0
    THEN {[raised |-> "ValueError", uids |-> <<>>, checked |-> 0, pool_size |-> 0,
           reclamped |-> FALSE, n_avail |-> 0, n_candidates |-> 0]}
    ELSE LET exclude_set == IF exclude.is_none THEN {} ELSE Range(exclude.list)
             scan == Scan(mg, limit, exclude_set)
             k1 == Min(k, Len(scan.avail_uids))
         IN IF k1 = 0
            THEN {[raised |-> "none", uids |-> <<>>, checked |-> scan.checked,
                   pool_size |-> Len(scan.candidate_uids), reclamped |-> FALSE,
                   n_avail |-> Len(scan.avail_uids),
                   n_candidates |-> Len(scan.candidate_uids)]}
            ELSE UNION {Finish(bf, k1, scan) :
                          bf \in Backfilled(scan.candidate_uids, scan.avail_uids,
                                              exclude_set, k1)}

\* get_random_uids(self, k, exclude): the set of its possible outcomes
get_random_uids(mg, limit, k, exclude) ==
    LET exclude_set == IF exclude.is_none THEN {} ELSE Range(exclude.list)
        scan == Scan(mg, limit, exclude_set)
        k1 == Min(k, Len(scan.avail_uids))
    IN IF k1 = 0
       THEN {[raised |-> "none", uids |-> <<>>, checked |-> scan.checked,
              pool_size |-> Len(scan.candidate_uids), reclamped |-> FALSE,
              n_avail |-> Len(scan.avail_uids),
              n_candidates |-> Len(scan.candidate_uids)]}
       ELSE UNION {Finish(bf, k1, scan) :
                     bf \in Backfilled(scan.candidate_uids, scan.avail_uids,
                                         exclude_set, k1)}

\* ------------------------------------------------------------------ seeded runs

\* The state of the random module's generator after random.seed(seed), as the
\* stream of draws it will give: _randbelow(n) hands out the next draw, which
\* depends on the generator state alone, and moves the state on.
randbelow(rng, n) == [value |-> rng % n, rng |-> rng \div n]

\* The selection loop of random.sample on a list: for each of the k picks,
\* j = _randbelow(n - i); result[i] = pool[j]; pool[j] = pool[n - i - 1].
RECURSIVE sample_pool(_, _, _, _)
sample_pool(pool, k, rng, result) ==
    IF k = 0 THEN [value |-> result, rng |-> rng]
    ELSE LET n == Len(pool)
             d == randbelow(rng, n)
             j == d.value + 1
         IN sample_pool(SubSeq([pool EXCEPT ![j] = pool[n]], 1, n - 1),
                        k - 1, d.rng, Append(result, pool[j]))

\* random.sample(population, k) from a given generator state
random_sample_seeded(population, k, rng) ==
    IF k < 0 \/ k > Len(population)
    THEN [raised |-> "ValueError", value |-> <<>>, rng |-> rng]
    ELSE LET r == sample_pool(population, k, rng, <<>>)
         IN [raised |-> "none", value |-> r.value, rng |-> r.rng]

\* Lines 65-77 from a given generator state: the backfill draw, the second
\* clamp and the final draw, the second draw continuing the stream of the first.
backfill_and_sample(candidate_uids, ea, k, rng) ==
    LET bf == IF Len(candidate_uids) < k /\ ea # <<>>
              THEN LET r == random_sample_seeded(
                                ea, Min(k - Len(candidate_uids), Len(ea)), rng)
                   IN [raised |-> r.raised, pool |-> candidate_uids \o r.value,
                       rng |-> r.rng]
              ELSE [raised |-> "none", pool |-> candidate_uids, rng |-> rng]
    IN IF bf.raised # "none"
       THEN [raised |-> bf.raised, uids |-> <<>>]
       ELSE LET k2 == IF Len(bf.pool) < k THEN Len(bf.pool) ELSE k
                r == random_sample_seeded(bf.pool, k2, bf.rng)
            IN [raised |-> r.raised, uids |-> r.value]

\* a variant whose backfill walks the exclusion list as the caller wrote it
get_random_uids_seeded_exclude_order(mg, limit, k, exclude, rng) ==
    LET exclude_set == IF exclude.is_none THEN {} ELSE Range(exclude.list)
        scan == Scan(mg, limit, exclude_set)
        k1 == Min(k, Len(scan.avail_uids))
    IN IF k1 = 0
       THEN [raised |-> "none", uids |-> <<>>]
       ELSE backfill_and_sample(
                scan.candidate_uids,
                SelectSeq(exclude.list, LAMBDA uid : uid \in Range(scan.avail_uids)),
                k1, rng)

\* get_random_uids(self, k, exclude) with the generator in the state rng
get_random_uids_seeded(mg, limit, k, exclude, rng) ==
    LET exclude_set == IF exclude.is_none THEN {} ELSE Range(exclude.list)
        scan == Scan(mg, limit, exclude_set)
        k1 == Min(k, Len(scan.avail_uids))
    IN IF k1 = 0
       THEN [raised |-> "none", uids |-> <<>>]
       ELSE backfill_and_sample(scan.candidate_uids,
                                excluded_available(scan.avail_uids, exclude_set),
                                k1, rng)

\* ------------------------------------------------------------------ sampler actions

NoCall == [op |-> "none"]

\* no validator neuron is running
NoValidator == [pc |-> "none"]

\* a direct call of check_uid_availability on one entry of the snapshot
CallCheckUidAvailability ==
    /\ uids_call = NoCall
    /\ \E uid \in 0..(metagraph.n - 1), limit \in 0..MaxLimit :
          uids_call' = [op |-> "check_uid_availability", uid |-> uid, limit |-> limit,
                        ret |-> check_uid_availability(metagraph, uid, limit)]
    /\ UNCHANGED <<metagraph, config, dendrite_vars, validator, last_call>>

\* a call of get_random_uids on the snapshot, with any k and any exclusion list
CallGetRandomUids ==
    /\ uids_call = NoCall
    /\ \E k \in (-1)..(metagraph.n + 1),
          exclude \in {ListArg(l) : l \in ListsUpTo(0..metagraph.n, MaxExclude)}
                        \cup {NoneArg} :
          \E out \in get_random_uids(metagraph, config.neuron.vpermit_tao_limit, k, exclude) :
             uids_call' = [op |-> "get_random_uids", k |-> k, exclude |-> exclude,
                           out |-> out]
    /\ UNCHANGED <<metagraph, config, dendrite_vars, validator, last_call>>

DendriteIdle ==
    /\ dendrite = [min_time |-> 0, max_time |-> 0]
    /\ fwd = [pc |-> "idle"]
    /\ tasks = <<>>
    /\ completed = <<>>
    /\ returned = [pc |-> "none"]

Init ==
    /\ metagraph \in Metagraphs
    /\ config = [neuron |-> [vpermit_tao_limit |-> DefaultVpermitTaoLimit]]
    /\ uids_call = NoCall
    /\ DendriteIdle
    /\ validator = NoValidator
    /\ last_call = NoCall

Next ==
    \/ CallCheckUidAvailability
    \/ CallGetRandomUids

Spec == Init /\ [][Next]_vars


\* ------------------------------------------------------------------ seeded sampler runs

\* registries that differ in which axons are serving only
ServingMetagraphs ==
    {mg \in Metagraphs :
       \A uid \in 0..(mg.n - 1) :
          ~mg.validator_permit[uid] /\ mg.S[uid] = DefaultVpermitTaoLimit}

Seeds == 0..MaxSeed

ExcludeArgs(n) == {ListArg(l) : l \in ListsUpTo(0..n, MaxExclude)} \cup {NoneArg}

\* set(exclude), None standing for no exclusion (lines 44-47)
exclude_set_of(exclude) == IF exclude.is_none THEN {} ELSE Range(exclude.list)

\* random.seed(seed) followed by get_random_uids(self, k, exclude)
SeededRun ==
    /\ uids_call = NoCall
    /\ \E k \in (-1)..(metagraph.n + 1), exclude \in ExcludeArgs(metagraph.n),
          seed \in Seeds :
          uids_call' = [op |-> "seeded_run", k |-> k, exclude |-> exclude,
                        seed |-> seed,
                        out |-> get_random_uids_seeded(
                                    metagraph, config.neuron.vpermit_tao_limit,
                                    k, exclude, seed)]
    /\ UNCHANGED <<metagraph, config, dendrite_vars, validator, last_call>>

\* the second run: the same seed, the same k, the same registry and an exclusion
\* argument that names the same set of uids, in any order and with any repeats
SeededRerun ==
    /\ uids_call.op = "seeded_run"
    /\ \E exclude2 \in ExcludeArgs(metagraph.n) :
          /\ exclude_set_of(exclude2) = exclude_set_of(uids_call.exclude)
          /\ uids_call' = [op |-> "seeded_rerun", k |-> uids_call.k,
                           exclude |-> uids_call.exclude, seed |-> uids_call.seed,
                           out |-> uids_call.out, exclude2 |-> exclude2,
                           out2 |-> get_random_uids_seeded(
                                       metagraph, config.neuron.vpermit_tao_limit,
                                       uids_call.k, exclude2, uids_call.seed)]
    /\ UNCHANGED <<metagraph, config, dendrite_vars, validator, last_call>>

InitSeeded ==
    /\ metagraph \in ServingMetagraphs
    /\ config = [neuron |-> [vpermit_tao_limit |-> DefaultVpermitTaoLimit]]
    /\ uids_call = NoCall
    /\ DendriteIdle
    /\ validator = NoValidator
    /\ last_call = NoCall

NextSeeded ==
    \/ SeededRun
    \/ SeededRerun

SpecSeeded == InitSeeded /\ [][NextSeeded]_vars

\* ------------------------------------------------------------------ mock.py

\* an unset Optional[int] field, and a set one
PyNone == <<>>
PyInt(v) == <<v>>

\* str(x), as stored in dendrite.process_time
PyStr(x) == [str |-> x]

\* the peers whose axons are queried: two are enough to tell their responses
\* apart, and a list may name a peer more than once
AxonUids == {0, 1}

\* the inputs carried by the Dummy messages that are sent
DummyInputs == {0, 42}

\* TerminalInfo before any status is attached
BlankTerminal == [status_code |-> PyNone, status_message |-> PyNone, process_time |-> PyNone]

\* Dummy(dummy_input=x): one integer input and an unset output
Dummy(x) ==
    [kind |-> "Dummy", dummy_input |-> PyInt(x), dummy_output |-> PyNone,
     dendrite |-> BlankTerminal, axon |-> PyNone, timeout |-> PyNone]

\* bt.Synapse(): a message with no dummy_input attribute
BareSynapse ==
    [kind |-> "Synapse", dummy_input |-> PyNone, dummy_output |-> PyNone,
     dendrite |-> BlankTerminal, axon |-> PyNone, timeout |-> PyNone]

Synapses == {Dummy(x) : x \in DummyInputs} \cup {BareSynapse}

\* hasattr(s, 'dummy_input')
has_dummy_input(s) == s.kind = "Dummy"

\* s = synapse.copy(); s = self.preprocess_synapse_for_request(axon, s, timeout):
\* the copy carries the target axon, the timeout and a fresh dendrite TerminalInfo
preprocess_synapse_for_request(axon, synapse, timeout) ==
    [synapse EXCEPT !.axon = PyInt(axon), !.timeout = PyInt(timeout),
                    !.dendrite = BlankTerminal]

\* random.uniform(self.min_time, self.max_time), in clock ticks
random_uniform(a, b) == a..b

\* the time asyncio.sleep(process_time) can take by the clock: the delay, or a tick more
SleepTimes(process_time) == {process_time, process_time + 1}

\* a classification that treats elapsed = timeout as in time
single_axon_response_gt(s, actual_time, timeout) ==
    IF actual_time > timeout
    THEN [s EXCEPT !.dummy_output = IF has_dummy_input(s) THEN s.dummy_input ELSE PyInt(0),
                   !.dendrite = [status_code |-> PyInt(408),
                                 status_message |-> "Timeout",
                                 process_time |-> PyStr(actual_time)]]
    ELSE [s EXCEPT !.dummy_output = IF has_dummy_input(s)
                                    THEN PyInt(s.dummy_input[1] * 2)
                                    ELSE s.dummy_output,
                   !.dendrite = [status_code |-> PyInt(200),
                                 status_message |-> "OK",
                                 process_time |-> PyStr(actual_time)]]

\* a timeout branch that leaves the output untouched
single_axon_response_untouched(s, actual_time, timeout) ==
    IF actual_time >= timeout
    THEN [s EXCEPT !.dendrite = [status_code |-> PyInt(408),
                                 status_message |-> "Timeout",
                                 process_time |-> PyStr(actual_time)]]
    ELSE [s EXCEPT !.dummy_output = IF has_dummy_input(s)
                                    THEN PyInt(s.dummy_input[1] * 2)
                                    ELSE s.dummy_output,
                   !.dendrite = [status_code |-> PyInt(200),
                                 status_message |-> "OK",
                                 process_time |-> PyStr(actual_time)]]

\* a success branch that passes the input through
single_axon_response_passthrough(s, actual_time, timeout) ==
    IF actual_time >= timeout
    THEN [s EXCEPT !.dummy_output = IF has_dummy_input(s) THEN s.dummy_input ELSE PyInt(0),
                   !.dendrite = [status_code |-> PyInt(408),
                                 status_message |-> "Timeout",
                                 process_time |-> PyStr(actual_time)]]
    ELSE [s EXCEPT !.dummy_output = IF has_dummy_input(s)
                                    THEN s.dummy_input
                                    ELSE s.dummy_output,
                   !.dendrite = [status_code |-> PyInt(200),
                                 status_message |-> "OK",
                                 process_time |-> PyStr(actual_time)]]

\* a timeout branch that does not record the measured time
single_axon_response_no_latency(s, actual_time, timeout) ==
    IF actual_time >= timeout
    THEN [s EXCEPT !.dummy_output = IF has_dummy_input(s) THEN s.dummy_input ELSE PyInt(0),
                   !.dendrite = [status_code |-> PyInt(408),
                                 status_message |-> "Timeout",
                                 process_time |-> s.dendrite.process_time]]
    ELSE [s EXCEPT !.dummy_output = IF has_dummy_input(s)
                                    THEN PyInt(s.dummy_input[1] * 2)
                                    ELSE s.dummy_output,
                   !.dendrite = [status_code |-> PyInt(200),
                                 status_message |-> "OK",
                                 process_time |-> PyStr(actual_time)]]

\* single_axon_response after its sleep (lines 107-122): the copy s with the
\* status and the output that the measured time decides
single_axon_response(s, actual_time, timeout) ==
    IF actual_time >= timeout
    THEN [s EXCEPT !.dummy_output = IF has_dummy_input(s) THEN s.dummy_input ELSE PyInt(0),
                   !.dendrite = [status_code |-> PyInt(408),
                                 status_message |-> "Timeout",
                                 process_time |-> PyStr(actual_time)]]
    ELSE [s EXCEPT !.dummy_output = IF has_dummy_input(s)
                                    THEN PyInt(s.dummy_input[1] * 2)
                                    ELSE s.dummy_output,
                   !.dendrite = [status_code |-> PyInt(200),
                                 status_message |-> "OK",
                                 process_time |-> PyStr(actual_time)]]

\* s.deserialize(): a Dummy yields its dummy_output, a bare Synapse itself
deserialize(s) == IF s.kind = "Dummy" THEN [value |-> s.dummy_output] ELSE [synapse |-> s]

\* what a finished task returns (lines 124-128)
task_result(s, want_deserialize) ==
    IF want_deserialize THEN deserialize(s) ELSE [synapse |-> s]

\* results handed back in the order in which the tasks finished
gather_completion_order(ts, done_order, want_deserialize) ==
    [j \in 1..Len(done_order) |-> task_result(ts[done_order[j]].s, want_deserialize)]

\* asyncio.gather(*coroutines): the results in the order of the coroutines
gather(ts, done_order, want_deserialize) ==
    [i \in 1..Len(ts) |-> task_result(ts[i].s, want_deserialize)]

\* synapse.copy() that hands back the caller's own object
synapse_copy_alias(synapse) == [own |-> FALSE, s |-> synapse]

\* s = synapse.copy() (line 96): a new object with the fields of the original
synapse_copy(synapse) == [own |-> TRUE, s |-> synapse]

\* The caller's message after a coroutine wrote s: it is touched only when s
\* is the caller's object itself.
caller_synapse(original, own, s) == IF own THEN original ELSE s

\* a forward that builds its coroutines before it looks at streaming
forward_entry_check_after(axons, synapse, timeout, want_deserialize, streaming) ==
    [pc |-> IF streaming THEN "raised" ELSE "gathering",
     error |-> IF streaming THEN "NotImplementedError" ELSE "none",
     tasks |-> [i \in 1..Len(axons) |->
                  [pc |-> "created", axon |-> axons[i], s |-> BareSynapse, own |-> TRUE,
                   process_time |-> 0, actual_time |-> 0]]]

\* forward(axons, synapse, timeout, deserialize, run_async, streaming) up to
\* the creation of the coroutines (lines 87-88, 130-135): NotImplementedError
\* for streaming, else one coroutine per axon, in the order of the axons
forward_entry(axons, synapse, timeout, want_deserialize, streaming) ==
    [pc |-> IF streaming THEN "raised" ELSE "gathering",
     error |-> IF streaming THEN "NotImplementedError" ELSE "none",
     tasks |-> IF streaming THEN <<>>
               ELSE [i \in 1..Len(axons) |->
                       [pc |-> "created", axon |-> axons[i], s |-> BareSynapse, own |-> TRUE,
                        process_time |-> 0, actual_time |-> 0]]]

\* __call__ (lines 139-159) delegates to forward with the same arguments
dendrite_call(axons, synapse, timeout, want_deserialize, streaming) ==
    forward_entry(axons, synapse, timeout, want_deserialize, streaming)

\* ------------------------------------------------------------------ dendrite actions

\* A call of the dendrite, through forward or through __call__, with any
\* arguments; fwd keeps the arguments as the caller gave them.
Forward ==
    /\ fwd.pc = "idle"
    /\ \E axons \in ListsUpTo(AxonUids, MaxAxons), synapse \in Synapses,
          timeout \in 1..MaxTime, want_deserialize \in BOOLEAN,
          streaming \in BOOLEAN, entry \in {"forward", "__call__"} :
          LET r == IF entry = "__call__"
                   THEN dendrite_call(axons, synapse, timeout, want_deserialize, streaming)
                   ELSE forward_entry(axons, synapse, timeout, want_deserialize, streaming)
          IN /\ fwd' = [pc |-> r.pc, error |-> r.error,
                        axons |-> axons, synapse |-> synapse, timeout |-> timeout,
                        deserialize |-> want_deserialize, streaming |-> streaming]
             /\ tasks' = r.tasks
    /\ UNCHANGED <<sampler_vars, dendrite, completed, returned, validator, last_call>>

\* single_axon_response(i, axon) from its first line to its await (lines 95-105);
\* the event loop starts the coroutines in the order gather was given them
StartTask(i) ==
    /\ fwd.pc = "gathering"
    /\ i \in 1..Len(tasks)
    /\ tasks[i].pc = "created"
    /\ \A j \in 1..(i - 1) : tasks[j].pc # "created"
    /\ \E process_time \in random_uniform(dendrite.min_time, dendrite.max_time) :
          LET c == synapse_copy(fwd.synapse)
              s == preprocess_synapse_for_request(tasks[i].axon, c.s, fwd.timeout)
          IN /\ tasks' = [tasks EXCEPT ![i] =
                            [@ EXCEPT !.pc = "sleeping", !.s = s, !.own = c.own,
                                      !.process_time = process_time]]
             /\ fwd' = [fwd EXCEPT !.synapse = caller_synapse(fwd.synapse, c.own, s)]
    /\ UNCHANGED <<sampler_vars, dendrite, completed, returned, validator, last_call>>

\* a unit that resumes only once the units before it have finished
WakeTask_serial(i) ==
    /\ fwd.pc = "gathering"
    /\ i \in 1..Len(tasks)
    /\ tasks[i].pc = "sleeping"
    /\ \A j \in 1..Len(tasks) : tasks[j].pc # "created"
    /\ \A j \in 1..(i - 1) : tasks[j].pc = "done"
    /\ \E actual_time \in SleepTimes(tasks[i].process_time) :
          LET s == single_axon_response(tasks[i].s, actual_time, fwd.timeout)
          IN /\ tasks' = [tasks EXCEPT ![i] =
                            [@ EXCEPT !.pc = "done", !.actual_time = actual_time, !.s = s]]
             /\ fwd' = [fwd EXCEPT !.synapse = caller_synapse(fwd.synapse, tasks[i].own, s)]
    /\ completed' = Append(completed, i)
    /\ UNCHANGED <<sampler_vars, dendrite, returned, validator, last_call>>

\* single_axon_response(i, axon) from the end of its sleep to its return (lines
\* 107-128). The first steps of all the coroutines are queued by gather before
\* the loop handles any timer, so no task wakes while another has not started.
WakeTask(i) ==
    /\ fwd.pc = "gathering"
    /\ i \in 1..Len(tasks)
    /\ tasks[i].pc = "sleeping"
    /\ \A j \in 1..Len(tasks) : tasks[j].pc # "created"
    /\ \E actual_time \in SleepTimes(tasks[i].process_time) :
          LET s == single_axon_response(tasks[i].s, actual_time, fwd.timeout)
          IN /\ tasks' = [tasks EXCEPT ![i] =
                            [@ EXCEPT !.pc = "done", !.actual_time = actual_time, !.s = s]]
             /\ fwd' = [fwd EXCEPT !.synapse = caller_synapse(fwd.synapse, tasks[i].own, s)]
    /\ completed' = Append(completed, i)
    /\ UNCHANGED <<sampler_vars, dendrite, returned, validator, last_call>>

\* a return as soon as one coroutine has finished
Return_first_completed ==
    /\ fwd.pc = "gathering"
    /\ \E i \in 1..Len(tasks) : tasks[i].pc = "done"
    /\ fwd' = [fwd EXCEPT !.pc = "returned"]
    /\ returned' = [pc |-> "returned",
                    value |-> gather(tasks, completed, fwd.deserialize)]
    /\ UNCHANGED <<sampler_vars, dendrite, tasks, completed, validator, last_call>>

\* gather has every result: query_all_axons and forward return (lines 130-137)
Return ==
    /\ fwd.pc = "gathering"
    /\ \A i \in 1..Len(tasks) : tasks[i].pc = "done"
    /\ fwd' = [fwd EXCEPT !.pc = "returned"]
    /\ returned' = [pc |-> "returned",
                    value |-> gather(tasks, completed, fwd.deserialize)]
    /\ UNCHANGED <<sampler_vars, dendrite, tasks, completed, validator, last_call>>

\* MockDendrite with its delay range set, and nothing of the sampler in use
InitDendrite ==
    /\ metagraph = [n |-> 0, axons |-> <<>>, validator_permit |-> <<>>, S |-> <<>>]
    /\ config = [neuron |-> [vpermit_tao_limit |-> DefaultVpermitTaoLimit]]
    /\ uids_call = NoCall
    /\ \E lo \in 0..MaxTime, hi \in 0..MaxTime :
          /\ lo <= hi
          /\ dendrite = [min_time |-> lo, max_time |-> hi]
    /\ fwd = [pc |-> "idle"]
    /\ tasks = <<>>
    /\ completed = <<>>
    /\ returned = [pc |-> "none"]
    /\ validator = NoValidator
    /\ last_call = NoCall

NextDendrite ==
    \/ Forward
    \/ \E i \in 1..MaxAxons : StartTask(i)
    \/ \E i \in 1..MaxAxons : WakeTask(i)
    \/ Return

SpecDendrite == InitDendrite /\ [][NextDendrite]_vars

\* ------------------------------------------------------------------ validator/forward.py

\* a float of the reward array, and NaN
Float(x) == [is_nan |-> FALSE, value |-> x]
NaN == [is_nan |-> TRUE, value |-> 0]

\* reward(query, response): 1.0 for the doubled query, 0 otherwise
reward(query, response) ==
    IF response = [value |-> PyInt(query * 2)] THEN Float(1) ELSE Float(0)

\* get_rewards(self, query, responses): one float per response; the reward
\* function is the developer's, and any of its values may come out as NaN
get_rewards(query, responses) ==
    {[i \in 1..Len(responses) |->
        IF i \in nan THEN NaN ELSE reward(query, responses[i])]
       : nan \in SUBSET (1..Len(responses))}

\* an update that stores the rewards as they come
update_scores_keep_nan(scores, rewards, uids) ==
    [scores |-> [uid \in DOMAIN scores |->
                   IF \E i \in 1..Len(uids) : uids[i] = uid
                   THEN rewards[CHOOSE i \in 1..Len(uids) : uids[i] = uid]
                   ELSE scores[uid]],
     log |-> IF \E i \in 1..Len(rewards) : rewards[i].is_nan
             THEN <<"warning">> ELSE <<>>]

\* self.update_scores(rewards, uids): NaN rewards are logged with a warning and
\* replaced by 0, then the scores of the uids are updated
update_scores(scores, rewards, uids) ==
    LET clean == [i \in 1..Len(rewards) |->
                    IF rewards[i].is_nan THEN Float(0) ELSE rewards[i]]
    IN [scores |-> [uid \in DOMAIN scores |->
                      IF \E i \in 1..Len(uids) : uids[i] = uid
                      THEN clean[CHOOSE i \in 1..Len(uids) : uids[i] = uid]
                      ELSE scores[uid]],
        log |-> IF \E i \in 1..Len(rewards) : rewards[i].is_nan
                THEN <<"warning">> ELSE <<>>]

\* an except clause that logs the error and lets forward return
on_exception_swallowed(v, e) ==
    [v EXCEPT !.pc = "returned", !.error = e, !.log = Append(@, "error")]

\* except Exception as e: bt.logging.error(...); raise (lines 74-76)
on_exception(v, e) ==
    [v EXCEPT !.pc = "raised", !.error = e, !.log = Append(@, "error")]

\* a cycle that queries the dendrite whatever the sample holds
after_sampling_no_empty_check(v, out) ==
    IF out.raised # "none"
    THEN on_exception([v EXCEPT !.calls = Append(@, "get_random_uids")], out.raised)
    ELSE [v EXCEPT !.pc = "awaiting", !.miner_uids = out.uids,
                   !.calls = @ \o <<"get_random_uids", "dendrite">>]

\* a cycle that scores the sampled peers before it has queried them
after_sampling_prescored(v, out) ==
    IF out.raised # "none"
    THEN on_exception([v EXCEPT !.calls = Append(@, "get_random_uids")], out.raised)
    ELSE IF Len(out.uids) = 0
    THEN [v EXCEPT !.pc = "returned", !.log = Append(@, "warning"),
                   !.calls = Append(@, "get_random_uids")]
    ELSE [v EXCEPT !.pc = "awaiting", !.miner_uids = out.uids,
                   !.scores = [uid \in DOMAIN v.scores |->
                                 IF \E i \in 1..Len(out.uids) : out.uids[i] = uid
                                 THEN Float(1) ELSE v.scores[uid]],
                   !.calls = @ \o <<"get_random_uids", "dendrite">>]

\* forward from its first line to the await of the dendrite (lines 40-59),
\* given what get_random_uids did: an exception goes to the except clause, an
\* empty sample is logged with a warning and ends the cycle, and any other
\* sample is queried
after_sampling(v, out) ==
    IF out.raised # "none"
    THEN on_exception([v EXCEPT !.calls = Append(@, "get_random_uids")], out.raised)
    ELSE IF Len(out.uids) = 0
    THEN [v EXCEPT !.pc = "returned", !.log = Append(@, "warning"),
                   !.calls = Append(@, "get_random_uids")]
    ELSE [v EXCEPT !.pc = "awaiting", !.miner_uids = out.uids,
                   !.calls = @ \o <<"get_random_uids", "dendrite">>]

\* a cycle that hands update_scores the sampled uids in reverse
after_responses_reversed_uids(v, responses, rewards) ==
    IF Len(rewards) > 0
    THEN LET uids == [i \in 1..Len(v.miner_uids) |->
                        v.miner_uids[Len(v.miner_uids) + 1 - i]]
             u == update_scores(v.scores, rewards, uids)
         IN [v EXCEPT !.pc = "returned", !.responses = responses,
                      !.rewards = rewards,
                      !.update_args = [rewards |-> rewards, uids |-> uids],
                      !.scores = u.scores, !.log = @ \o u.log,
                      !.calls = @ \o <<"get_rewards", "update_scores">>]
    ELSE [v EXCEPT !.pc = "returned", !.responses = responses, !.rewards = rewards,
                   !.log = Append(@, "warning"),
                   !.calls = Append(@, "get_rewards")]

\* forward once the dendrite has answered (lines 61-72): the rewards are
\* computed, and handed with the sampled uids to update_scores as they are
after_responses(v, responses, rewards) ==
    IF Len(rewards) > 0
    THEN LET u == update_scores(v.scores, rewards, v.miner_uids)
         IN [v EXCEPT !.pc = "returned", !.responses = responses,
                      !.rewards = rewards,
                      !.update_args = [rewards |-> rewards, uids |-> v.miner_uids],
                      !.scores = u.scores, !.log = @ \o u.log,
                      !.calls = @ \o <<"get_rewards", "update_scores">>]
    ELSE [v EXCEPT !.pc = "returned", !.responses = responses, !.rewards = rewards,
                   !.log = Append(@, "warning"),
                   !.calls = Append(@, "get_rewards")]

\* the validator neuron before its first cycle: zero scores for the n entries
\* of the registry, and the locals of forward unset
validator_at_start(step, n) ==
    [pc |-> "idle", step |-> step,
     scores |-> [uid \in 0..(n - 1) |-> Float(0)],
     log |-> <<>>, calls |-> <<>>, miner_uids |-> <<>>,
     responses |-> <<>>, rewards |-> <<>>,
     update_args |-> [rewards |-> <<>>, uids |-> <<>>],
     error |-> "none", cycle |-> 1, failures |-> <<>>]

\* ------------------------------------------------------------------ validator actions

\* forward(self) up to its await: the sample is drawn, and unless the cycle
\* ends there the dendrite is called with the axons of the sampled uids, a
\* Dummy carrying self.step, deserialize=True and the configured timeout
ValidatorForward ==
    /\ validator.pc = "idle"
    /\ fwd.pc = "idle"
    /\ \E out \in get_random_uids(metagraph, config.neuron.vpermit_tao_limit,
                                   config.neuron.sample_size, NoneArg) :
          LET v == after_sampling(validator, out)
              r == dendrite_call(v.miner_uids, Dummy(validator.step),
                                 config.neuron.timeout, TRUE, FALSE)
          IN /\ uids_call' = [op |-> "get_random_uids",
                              k |-> config.neuron.sample_size,
                              exclude |-> NoneArg, out |-> out]
             /\ validator' = v
             /\ IF v.pc = "awaiting"
                THEN /\ fwd' = [pc |-> r.pc, error |-> r.error, axons |-> v.miner_uids,
                                synapse |-> Dummy(validator.step),
                                timeout |-> config.neuron.timeout,
                                deserialize |-> TRUE, streaming |-> FALSE]
                     /\ tasks' = r.tasks
                ELSE UNCHANGED <<fwd, tasks>>
    /\ UNCHANGED <<metagraph, config, dendrite, completed, returned, last_call>>

\* the awaited dendrite call raises instead of returning: the exception
\* reaches the except clause of forward
DendriteRaises ==
    /\ validator.pc = "awaiting"
    /\ fwd.pc = "gathering"
    /\ fwd' = [fwd EXCEPT !.pc = "raised", !.error = "TransportError"]
    /\ validator' = on_exception(validator, "TransportError")
    /\ UNCHANGED <<sampler_vars, dendrite, tasks, completed, returned, last_call>>

\* forward from the return of the dendrite to its end
ValidatorForwardResume ==
    /\ validator.pc = "awaiting"
    /\ fwd.pc = "returned"
    /\ \E rewards \in get_rewards(validator.step, returned.value) :
          validator' = after_responses(validator, returned.value, rewards)
    /\ UNCHANGED <<sampler_vars, dendrite_vars, last_call>>

\* a validator about to run a cycle: a registry, a sample size and a timeout
\* from its configuration, zero scores, and the mock dendrite with its default
\* delay range
InitValidator ==
    /\ metagraph \in ServingMetagraphs
    /\ \E sample_size \in (-1)..MaxN, timeout \in 1..MaxTime :
          config = [neuron |-> [vpermit_tao_limit |-> DefaultVpermitTaoLimit,
                                sample_size |-> sample_size, timeout |-> timeout]]
    /\ uids_call = NoCall
    /\ dendrite = [min_time |-> 0, max_time |-> 1]
    /\ fwd = [pc |-> "idle"]
    /\ tasks = <<>>
    /\ completed = <<>>
    /\ returned = [pc |-> "none"]
    /\ \E step \in DummyInputs : validator = validator_at_start(step, metagraph.n)
    /\ last_call = NoCall

NextValidator ==
    \/ ValidatorForward
    \/ \E i \in 1..MaxAxons : StartTask(i)
    \/ \E i \in 1..MaxAxons : WakeTask(i)
    \/ Return
    \/ DendriteRaises
    \/ ValidatorForwardResume

SpecValidator == InitValidator /\ [][NextValidator]_vars

\* The caller of forward has caught the exception of a failed cycle and runs
\* the next one: the frame of the failed call, its coroutines and its log are
\* gone, and what the neuron keeps (scores, step), the registry, the
\* configuration and the dendrite stay as the failed cycle left them.
ValidatorNextCycle ==
    /\ validator.pc = "raised"
    /\ validator.cycle < MaxCycles
    /\ validator' = [validator EXCEPT
                        !.pc = "idle", !.cycle = @ + 1,
                        !.failures = Append(@, validator.error),
                        !.error = "none", !.log = <<>>, !.calls = <<>>,
                        !.miner_uids = <<>>, !.responses = <<>>, !.rewards = <<>>,
                        !.update_args = [rewards |-> <<>>, uids |-> <<>>]]
    /\ uids_call' = NoCall
    /\ fwd' = [pc |-> "idle"]
    /\ tasks' = <<>>
    /\ completed' = <<>>
    /\ returned' = [pc |-> "none"]
    /\ UNCHANGED <<metagraph, config, dendrite, last_call>>

NextValidatorCycles ==
    \/ ValidatorForward
    \/ \E i \in 1..MaxAxons : StartTask(i)
    \/ \E i \in 1..MaxAxons : WakeTask(i)
    \/ Return
    \/ DendriteRaises
    \/ ValidatorForwardResume
    \/ ValidatorNextCycle

SpecValidatorCycles == InitValidator /\ [][NextValidatorCycles]_vars

\* ------------------------------------------------------------------ neurons/miner.py

Hotkeys == 1..MaxHotkeys

\* the registries a miner sees: a hotkey per uid, no hotkey registered twice,
\* and a validator permit flag per uid
MinerMetagraphs ==
    UNION {
        [n : {m},
         hotkeys : {h \in [1..m -> Hotkeys] :
                      \A i, j \in 1..m : i # j => h[i] # h[j]},
         validator_permit : [0..(m - 1) -> BOOLEAN]]
        : m \in 0..MaxN}

\* the requests a miner is handed: no dendrite, a dendrite without a hotkey,
\* or a dendrite with a hotkey
Requests ==
    {[dendrite |-> PyNone], [dendrite |-> <<[hotkey |-> PyNone]>>]}
    \cup {[dendrite |-> <<[hotkey |-> PyInt(h)]>>] : h \in Hotkeys}

\* self.metagraph.hotkeys.index(hotkey): the uid of the first entry with the
\* hotkey, or ValueError
hotkeys_index(hotkeys, hotkey) ==
    IF \E i \in 1..Len(hotkeys) : hotkeys[i] = hotkey
    THEN [raised |-> "none",
          value |-> (CHOOSE i \in 1..Len(hotkeys) :
                       /\ hotkeys[i] = hotkey
                       /\ \A j \in 1..(i - 1) : hotkeys[j] # hotkey) - 1]
    ELSE [raised |-> "ValueError", value |-> 0]

Reject(reason) == [raised |-> "none", blacklisted |-> TRUE, reason |-> reason]
Allow(reason) == [raised |-> "none", blacklisted |-> FALSE, reason |-> reason]

\* a blacklist whose permit check lets an unknown hotkey through
blacklist_unknown_passes(mg, blacklist_config, synapse) ==
    IF synapse.dendrite = PyNone THEN Reject("Missing dendrite or hotkey")
    ELSE IF synapse.dendrite[1].hotkey = PyNone THEN Reject("Missing dendrite or hotkey")
    ELSE LET hotkey == synapse.dendrite[1].hotkey[1]
             ix == hotkeys_index(mg.hotkeys, hotkey)
         IN IF ~blacklist_config.allow_non_registered /\ hotkey \notin Range(mg.hotkeys)
            THEN Reject("Unrecognized hotkey")
            ELSE IF blacklist_config.force_validator_permit
            THEN (IF ix.raised = "ValueError" THEN Allow("Hotkey recognized!")
                  ELSE IF ~mg.validator_permit[ix.value]
                       THEN Reject("Non-validator hotkey")
                       ELSE Allow("Hotkey recognized!"))
            ELSE Allow("Hotkey recognized!")

\* Miner.blacklist(self, synapse) (lines 52-81)
blacklist(mg, blacklist_config, synapse) ==
    IF synapse.dendrite = PyNone THEN Reject("Missing dendrite or hotkey")
    ELSE IF synapse.dendrite[1].hotkey = PyNone THEN Reject("Missing dendrite or hotkey")
    ELSE LET hotkey == synapse.dendrite[1].hotkey[1]
             ix == hotkeys_index(mg.hotkeys, hotkey)
         IN IF ~blacklist_config.allow_non_registered /\ hotkey \notin Range(mg.hotkeys)
            THEN Reject("Unrecognized hotkey")
            ELSE IF blacklist_config.force_validator_permit
            THEN (IF ix.raised = "ValueError" THEN Reject("Unrecognized hotkey")
                  ELSE IF ~mg.validator_permit[ix.value]
                       THEN Reject("Non-validator hotkey")
                       ELSE Allow("Hotkey recognized!"))
            ELSE Allow("Hotkey recognized!")

\* a request arrives and the axon asks the miner whether to blacklist it
CallBlacklist ==
    /\ last_call = NoCall
    /\ \E synapse \in Requests :
          last_call' = [op |-> "blacklist", synapse |-> synapse,
                        out |-> blacklist(metagraph, config.blacklist, synapse)]
    /\ UNCHANGED <<metagraph, config, uids_call, dendrite_vars, validator>>

InitMiner ==
    /\ metagraph \in MinerMetagraphs
    /\ \E allow_non_registered \in BOOLEAN, force_validator_permit \in BOOLEAN :
          config = [blacklist |-> [allow_non_registered |-> allow_non_registered,
                                   force_validator_permit |-> force_validator_permit]]
    /\ uids_call = NoCall
    /\ DendriteIdle
    /\ validator = NoValidator
    /\ last_call = NoCall

NextMiner == CallBlacklist

SpecMiner == InitMiner /\ [][NextMiner]_vars

\* ------------------------------------------------------------------ api/get_query_axons.py

\* axons = [metagraph.axons[uid] for uid in uids] (line 47): IndexError for a
\* uid past the end of the registry; an axon is named by its uid
axons_lookup(mg, uids) ==
    IF \E i \in 1..Len(uids) : uids[i] >= mg.n
    THEN [raised |-> "IndexError", axons |-> <<>>]
    ELSE [raised |-> "none", axons |-> uids]

\* zip(uids, responses): the pairs up to the end of the shorter list
zip(uids, responses) ==
    [i \in 1..Min(Len(uids), Len(responses)) |->
       [uid |-> uids[i], response |-> responses[i]]]

\* [uid for uid, response in pairs], as a list of uids
uids_of(pairs) == [i \in 1..Len(pairs) |-> pairs[i].uid]

\* an except clause that lets the exception of the dendrite go on to the caller
ping_except_propagates(call) ==
    [call EXCEPT !.pc = "raised", !.error = "TransportError",
                 !.log = Append(@, "error")]

\* except Exception as e (lines 65-68): the error is logged, and every uid is
\* reported as failed
ping_except(call) ==
    [call EXCEPT !.pc = "returned", !.log = Append(@, "error"),
                 !.successful_uids = <<>>, !.failed_uids = call.uids]

\* lines 55-64 and 69-71: the uids whose response has status code 200, and the
\* others, each in the order of uids
ping_partition(call, responses) ==
    [call EXCEPT
       !.pc = "returned",
       !.successful_uids =
           uids_of(SelectSeq(zip(call.uids, responses),
                             LAMBDA p : p.response.synapse.dendrite.status_code = PyInt(200))),
       !.failed_uids =
           uids_of(SelectSeq(zip(call.uids, responses),
                             LAMBDA p : p.response.synapse.dendrite.status_code # PyInt(200)))]

\* ping_uids(dendrite, metagraph, uids, timeout) up to its await: the axons are
\* looked up, and the dendrite is called with a bare Synapse and
\* deserialize=False
PingUids ==
    /\ last_call = NoCall
    /\ fwd.pc = "idle"
    /\ \E uids \in ListsUpTo(0..metagraph.n, MaxAxons), timeout \in 1..MaxTime :
          LET a == axons_lookup(metagraph, uids)
              r == dendrite_call(a.axons, BareSynapse, timeout, FALSE, FALSE)
              call == [op |-> "ping_uids", uids |-> uids, timeout |-> timeout,
                       pc |-> "awaiting", error |-> "none", log |-> <<>>,
                       successful_uids |-> <<>>, failed_uids |-> <<>>]
          IN IF a.raised # "none"
             THEN /\ last_call' = [call EXCEPT !.pc = "raised", !.error = a.raised]
                  /\ UNCHANGED <<fwd, tasks>>
             ELSE /\ last_call' = call
                  /\ fwd' = [pc |-> r.pc, error |-> r.error, axons |-> a.axons,
                             synapse |-> BareSynapse, timeout |-> timeout,
                             deserialize |-> FALSE, streaming |-> FALSE]
                  /\ tasks' = r.tasks
    /\ UNCHANGED <<sampler_vars, dendrite, completed, returned, validator>>

\* the awaited dendrite call raises instead of returning
PingDendriteRaises ==
    /\ last_call.op = "ping_uids"
    /\ last_call.pc = "awaiting"
    /\ fwd.pc = "gathering"
    /\ fwd' = [fwd EXCEPT !.pc = "raised", !.error = "TransportError"]
    /\ last_call' = ping_except(last_call)
    /\ UNCHANGED <<sampler_vars, dendrite, tasks, completed, returned, validator>>

\* ping_uids from the return of the dendrite to its own return
PingUidsResume ==
    /\ last_call.op = "ping_uids"
    /\ last_call.pc = "awaiting"
    /\ fwd.pc = "returned"
    /\ last_call' = ping_partition(last_call, returned.value)
    /\ UNCHANGED <<sampler_vars, dendrite_vars, validator>>

\* a registry of n serving axons and the mock dendrite with its default delays
InitPing ==
    /\ metagraph \in {mg \in ServingMetagraphs :
                         \A uid \in 0..(mg.n - 1) : mg.axons[uid].is_serving}
    /\ config = [neuron |-> [vpermit_tao_limit |-> DefaultVpermitTaoLimit]]
    /\ uids_call = NoCall
    /\ dendrite = [min_time |-> 0, max_time |-> 1]
    /\ fwd = [pc |-> "idle"]
    /\ tasks = <<>>
    /\ completed = <<>>
    /\ returned = [pc |-> "none"]
    /\ validator = NoValidator
    /\ last_call = NoCall

NextPing ==
    \/ PingUids
    \/ \E i \in 1..MaxAxons : StartTask(i)
    \/ \E i \in 1..MaxAxons : WakeTask(i)
    \/ Return
    \/ PingDendriteRaises
    \/ PingUidsResume

SpecPing == InitPing /\ [][NextPing]_vars

\* ------------------------------------------------------------------ sampler claims

\* the uids of the snapshot for which check_uid_availability holds
AvailableUids ==
    {uid \in 0..(metagraph.n - 1) :
       check_uid_availability(metagraph, uid, config.neuron.vpermit_tao_limit)}

SampleCall == uids_call.op = "get_random_uids"

ExcludeSet == IF uids_call.exclude.is_none THEN {} ELSE Range(uids_call.exclude.list)

NoDuplicates(s) == \A i, j \in 1..Len(s) : i # j => s[i] # s[j]

\* C1: for every snapshot, every k >= 0 and every exclusion list, get_random_uids
\* returns exactly min(k, number of available uids) identifiers.
C1_SampleSize ==
    (SampleCall /\ uids_call.k >= 0) =>
        /\ uids_call.out.raised = "none"
        /\ Len(uids_call.out.uids) = Min(uids_call.k, Cardinality(AvailableUids))

\* C1 witness: a request larger than the available set, with a non-empty
\* exclusion list, answered with every available uid.
C1_Witness ==
    /\ SampleCall
    /\ uids_call.k > Cardinality(AvailableUids)
    /\ Cardinality(AvailableUids) = 2
    /\ ExcludeSet # {}
    /\ Len(uids_call.out.uids) = 2

\* C2: every identifier get_random_uids returns is an available uid within
\* [0, n), and none occurs twice, also after a backfill from the exclusion list.
C2_EligibleUnique ==
    (SampleCall /\ uids_call.k >= 0) =>
        /\ Range(uids_call.out.uids) \subseteq AvailableUids
        /\ \A i \in 1..Len(uids_call.out.uids) :
              uids_call.out.uids[i] >= 0 /\ uids_call.out.uids[i] < metagraph.n
        /\ NoDuplicates(uids_call.out.uids)

\* C2 witness: the exclusion list names an unavailable uid and an available
\* one, and the result was backfilled with the available one.
C2_Witness ==
    /\ SampleCall
    /\ \E u \in ExcludeSet : u < metagraph.n /\ u \notin AvailableUids
    /\ \E u \in ExcludeSet : u \in Range(uids_call.out.uids)
    /\ uids_call.out.n_candidates = 0

\* C3: when k exceeds the number of non-excluded available uids but not the
\* number of available uids, the result has exactly k uids, all available,
\* some of them from the exclusion list.
C3_Backfill ==
    (/\ SampleCall
     /\ uids_call.k > uids_call.out.n_candidates
     /\ uids_call.k <= uids_call.out.n_avail) =>
        /\ uids_call.out.raised = "none"
        /\ Len(uids_call.out.uids) = uids_call.k
        /\ Range(uids_call.out.uids) \subseteq AvailableUids
        /\ Range(uids_call.out.uids) \cap ExcludeSet # {}

\* C3 witness: one candidate, one excluded available uid, k = 2.
C3_Witness ==
    /\ SampleCall
    /\ uids_call.out.n_candidates = 1
    /\ uids_call.out.n_avail = 2
    /\ uids_call.k = 2
    /\ Len(uids_call.out.uids) = 2

C9_RejectedBeforeScan ==
    (SampleCall /\ uids_call.k < 0) =>
        /\ uids_call.out.raised # "none"
        /\ uids_call.out.checked = 0

\* C9 amended: a negative k fails with the ValueError of the final
\* random.sample, after the availability of every registry entry was checked.
C9_RejectedAfterScan ==
    (SampleCall /\ uids_call.k < 0) =>
        /\ uids_call.out.raised = "ValueError"
        /\ uids_call.out.checked = metagraph.n

\* C9 witness: a negative k on a registry with entries.
C9_Witness ==
    /\ SampleCall
    /\ uids_call.k < 0
    /\ metagraph.n > 0
    /\ uids_call.out.raised = "ValueError"
    /\ uids_call.out.checked > 0

\* C10: for every k >= 0, every registry and every exclusion list the call
\* never raises; with k = 0 or no available uid it returns an empty result.
C10_NeverRaises ==
    (SampleCall /\ uids_call.k >= 0) =>
        /\ uids_call.out.raised = "none"
        /\ (uids_call.k = 0 \/ AvailableUids = {}) => uids_call.out.uids = <<>>

\* C10 witness: k > 0 on a non-empty registry with no available uid and an
\* exclusion list naming an unavailable uid and an unknown one.
C10_Witness ==
    /\ SampleCall
    /\ uids_call.k > 0
    /\ metagraph.n > 0
    /\ AvailableUids = {}
    /\ \E u \in ExcludeSet : u < metagraph.n
    /\ \E u \in ExcludeSet : u >= metagraph.n
    /\ uids_call.out.raised = "none"
    /\ uids_call.out.uids = <<>>

\* C18: whenever the non-excluded available uids number at least the clamped k,
\* min(k, number of available uids), the result holds no uid of the exclusion set.
C18_ExclusionHonoured ==
    (/\ SampleCall
     /\ Cardinality(AvailableUids \ ExcludeSet) >=
            Min(uids_call.k, Cardinality(AvailableUids))) =>
        Range(uids_call.out.uids) \cap ExcludeSet = {}

\* C18 witness: an available uid is excluded, the others suffice for k > 0, and
\* the sample is drawn without it.
C18_Witness ==
    /\ SampleCall
    /\ uids_call.k > 0
    /\ AvailableUids \cap ExcludeSet # {}
    /\ Cardinality(AvailableUids \ ExcludeSet) >= uids_call.k
    /\ Len(uids_call.out.uids) = uids_call.k
    /\ Range(uids_call.out.uids) \cap ExcludeSet = {}

ClampedK == Min(uids_call.k, Cardinality(AvailableUids))

\* C24: whenever the non-excluded available uids number less than the clamped
\* k, the result holds every one of them, and exactly the shortfall, clamped k
\* minus their number, of uids from the exclusion set.
C24_BackfillShortfallOnly ==
    (/\ SampleCall
     /\ uids_call.k >= 0
     /\ Cardinality(AvailableUids \ ExcludeSet) < ClampedK) =>
        /\ uids_call.out.raised = "none"
        /\ (AvailableUids \ ExcludeSet) \subseteq Range(uids_call.out.uids)
        /\ Cardinality(Range(uids_call.out.uids) \cap ExcludeSet) =
              ClampedK - Cardinality(AvailableUids \ ExcludeSet)
        /\ Len(uids_call.out.uids) = ClampedK

\* C24 witness: two uids are asked for, one available uid is excluded and one
\* is not, and the result holds both.
C24_Witness ==
    /\ SampleCall
    /\ uids_call.k = 2
    /\ Cardinality(AvailableUids \ ExcludeSet) = 1
    /\ Cardinality(AvailableUids \cap ExcludeSet) = 1
    /\ Range(uids_call.out.uids) = AvailableUids

\* C25: for k >= 0 the second clamp never lowers k: whenever the call gets
\* past the early return, the pool left by the backfill step holds at least
\* the clamped k uids.
C25_SecondClampIdle ==
    (SampleCall /\ uids_call.k >= 0) =>
        /\ ~uids_call.out.reclamped
        /\ ClampedK > 0 => uids_call.out.pool_size >= ClampedK

\* C25 witness: the exclusion list names an available uid and an id outside
\* the registry, the backfill was needed, and the pool reached the clamped k.
C25_Witness ==
    /\ SampleCall
    /\ uids_call.k > 0
    /\ \E u \in ExcludeSet : u >= metagraph.n
    /\ uids_call.out.n_candidates < ClampedK
    /\ uids_call.out.pool_size = ClampedK
    /\ ~uids_call.out.reclamped
    /\ Len(uids_call.out.uids) = ClampedK

\* ------------------------------------------------------------------ validator claims

\* the number of entries of the given level in the log of the cycle
Logged(level) == Cardinality({i \in 1..Len(validator.log) : validator.log[i] = level})

HasNaN(rewards) == \E i \in 1..Len(rewards) : rewards[i].is_nan

\* C13: when the sampler returns an empty set, the cycle logs a warning and
\* returns normally, and the dendrite, get_rewards and update_scores are not
\* called in it.
C13_EmptySampleSkips ==
    (/\ SampleCall
     /\ uids_call.out.raised = "none"
     /\ uids_call.out.uids = <<>>) =>
        /\ validator.pc = "returned"
        /\ validator.error = "none"
        /\ validator.log = <<"warning">>
        /\ validator.calls = <<"get_random_uids">>
        /\ fwd.pc = "idle" /\ tasks = <<>>
        /\ validator.update_args = [rewards |-> <<>>, uids |-> <<>>]
        /\ \A uid \in DOMAIN validator.scores : validator.scores[uid] = Float(0)

\* C13 witness: a cycle that asked for peers on a registry with entries, none
\* of them available, and has returned.
C13_Witness ==
    /\ SampleCall
    /\ config.neuron.sample_size > 0
    /\ metagraph.n > 0
    /\ uids_call.out.uids = <<>>
    /\ validator.pc = "returned"
    /\ validator.log = <<"warning">>

\* C14: an exception raised while sampling or while sending is logged as
\* exactly one error of the cycle and re-raised to the caller; a cycle that
\* returns normally has seen no exception.
C14_ExceptionsReraised ==
    /\ (SampleCall /\ uids_call.out.raised # "none") =>
          /\ validator.pc = "raised"
          /\ validator.error = uids_call.out.raised
          /\ Logged("error") = 1
    /\ fwd.pc = "raised" =>
          /\ validator.pc = "raised"
          /\ validator.error = fwd.error
          /\ Logged("error") = 1
    /\ validator.pc = "returned" =>
          /\ validator.error = "none"
          /\ Logged("error") = 0
          /\ uids_call.out.raised = "none"
          /\ fwd.pc # "raised"

\* C14 witness: the dendrite raised while one response was in and another
\* pending, and the cycle ended with the exception and one error logged.
C14_Witness ==
    /\ fwd.pc = "raised"
    /\ \E i, j \in 1..Len(tasks) : tasks[i].pc = "done" /\ tasks[j].pc = "sleeping"
    /\ validator.pc = "raised"
    /\ validator.error = "TransportError"
    /\ validator.log = <<"error">>

CycleSteps == <<"get_random_uids", "dendrite", "get_rewards", "update_scores">>

IsPrefix(a, b) == Len(a) <= Len(b) /\ a = SubSeq(b, 1, Len(a))

Called(fn) == \E i \in 1..Len(validator.calls) : validator.calls[i] = fn

\* C21: the calls of a cycle are a prefix of sample, send, reward, score
\* update, each made at most once and never taken back; get_rewards is called
\* only once the dendrite has returned with every task done, on one response
\* per queried axon; update_scores is called after it, with one reward per
\* peer and the uids of the queried axons in the order they were queried.
C21_StepOrder ==
    /\ [](IsPrefix(validator.calls, CycleSteps))
    /\ [](Called("get_rewards") =>
            /\ fwd.pc = "returned"
            /\ \A i \in 1..Len(tasks) : tasks[i].pc = "done"
            /\ validator.responses = returned.value
            /\ Len(validator.responses) = Len(fwd.axons)
            /\ Len(validator.rewards) = Len(validator.responses))
    /\ [](Called("update_scores") =>
            /\ Called("get_rewards")
            /\ validator.update_args.uids = fwd.axons
            /\ validator.update_args.uids = uids_call.out.uids
            /\ validator.update_args.rewards = validator.rewards)
    /\ [][IsPrefix(validator.calls, validator'.calls)]_vars

\* C21 witness: two peers were queried in the order 1, 0, the second answered
\* first, and the scores were updated for 1, 0 in that order.
C21_Witness ==
    /\ validator.pc = "returned"
    /\ validator.calls = CycleSteps
    /\ fwd.axons = <<1, 0>>
    /\ completed = <<2, 1>>
    /\ validator.update_args.uids = <<1, 0>>

\* C22: a cycle in which sampling or the send raised has called neither
\* get_rewards nor update_scores and leaves the scores as they were; no step
\* changes the registry, the configuration or the dendrite; and the cycle that
\* follows starts from the very state a first cycle starts from, so it samples
\* and completes as if the failed one had not run.
C22_FailedCycleFrame ==
    /\ [](validator.pc = "raised" =>
            /\ ~Called("get_rewards")
            /\ ~Called("update_scores")
            /\ validator.update_args = [rewards |-> <<>>, uids |-> <<>>])
    /\ [](validator.pc = "raised" =>
            validator.scores = validator_at_start(validator.step, metagraph.n).scores)
    /\ [][metagraph' = metagraph /\ config' = config /\ dendrite' = dendrite]_vars
    /\ [][validator'.cycle # validator.cycle =>
            /\ validator.pc = "raised"
            /\ [validator' EXCEPT !.cycle = 1, !.failures = <<>>] =
                  validator_at_start(validator.step, metagraph.n)
            /\ uids_call' = NoCall
            /\ fwd' = [pc |-> "idle"]
            /\ tasks' = <<>> /\ completed' = <<>>
            /\ returned' = [pc |-> "none"]]_vars

\* C22 witness: the send of the first cycle raised, and the second cycle has
\* queried two peers and scored them.
C22_Witness ==
    /\ validator.cycle = 2
    /\ validator.failures = <<"TransportError">>
    /\ validator.pc = "returned"
    /\ validator.calls = CycleSteps
    /\ Len(validator.update_args.uids) = 2
    /\ \E uid \in DOMAIN validator.scores : validator.scores[uid] = Float(1)

\* ------------------------------------------------------------------ miner claims

BlacklistCall == last_call.op = "blacklist"

\* the request of the last blacklist call carries no dendrite or no hotkey
NoHotkey ==
    \/ last_call.synapse.dendrite = PyNone
    \/ last_call.synapse.dendrite[1].hotkey = PyNone

\* the uids registered under the hotkey of the request
UidsOfCaller ==
    {uid \in 0..(metagraph.n - 1) :
       PyInt(metagraph.hotkeys[uid + 1]) = last_call.synapse.dendrite[1].hotkey}

\* C26: blacklist rejects the request exactly when it has no dendrite or no
\* hotkey, or allow_non_registered is off and the hotkey is not registered, or
\* force_validator_permit is on and the hotkey is not registered or holds no
\* validator permit; it allows every other request, and it never raises.
C26_BlacklistDecision ==
    BlacklistCall =>
        /\ last_call.out.raised = "none"
        /\ last_call.out.blacklisted <=>
              \/ NoHotkey
              \/ ~config.blacklist.allow_non_registered /\ UidsOfCaller = {}
              \/ /\ config.blacklist.force_validator_permit
                 /\ \/ UidsOfCaller = {}
                    \/ \E uid \in UidsOfCaller : ~metagraph.validator_permit[uid]

\* C26 witness: unregistered callers are allowed, a permit is required, the
\* registry is not empty and the hotkey of the request is not in it: rejected.
C26_Witness ==
    /\ BlacklistCall
    /\ ~NoHotkey
    /\ config.blacklist.allow_non_registered
    /\ config.blacklist.force_validator_permit
    /\ metagraph.n > 0
    /\ UidsOfCaller = {}
    /\ last_call.out.blacklisted
    /\ last_call.out.reason = "Unrecognized hotkey"

\* ------------------------------------------------------------------ ping claims

PingCall == last_call.op = "ping_uids"

\* the positions of the pinged uids whose response came back with status 200
OkPositions ==
    {i \in 1..Len(returned.value) :
       returned.value[i].synapse.dendrite.status_code = PyInt(200)}

\* the entries of s at the positions in P, in the order of s
RECURSIVE PickFrom(_, _, _)
PickFrom(s, P, i) ==
    IF i > Len(s) THEN <<>>
    ELSE (IF i \in P THEN <<s[i]>> ELSE <<>>) \o PickFrom(s, P, i + 1)

\* C27 as stated: every call of ping_uids that is over has returned two
\* lists that hold, between them, one entry per input uid.
C27_AlwaysReturnsPartition ==
    (PingCall /\ last_call.pc # "awaiting") =>
        /\ last_call.pc = "returned"
        /\ Len(last_call.successful_uids) + Len(last_call.failed_uids)
              = Len(last_call.uids)

\* C27: when every input uid indexes the registry, ping_uids returns the uids
\* at the positions whose response has status code 200, in input order, and
\* the uids at the other positions, in input order; when the dendrite call
\* raises it logs one error and returns no successful uid and every input uid
\* as failed. A uid past the end of the registry makes it raise IndexError
\* before the dendrite is called.
C27_PartitionWithinRegistry ==
    PingCall =>
        /\ last_call.pc = "raised" <=> \E i \in 1..Len(last_call.uids) :
                                          last_call.uids[i] >= metagraph.n
        /\ last_call.pc = "raised" =>
              last_call.error = "IndexError" /\ fwd.pc = "idle"
        /\ fwd.pc = "raised" =>
              /\ last_call.pc = "returned"
              /\ last_call.successful_uids = <<>>
              /\ last_call.failed_uids = last_call.uids
              /\ last_call.log = <<"error">>
        /\ (last_call.pc = "returned" /\ fwd.pc = "returned") =>
              /\ Len(returned.value) = Len(last_call.uids)
              /\ last_call.successful_uids =
                    PickFrom(last_call.uids, OkPositions, 1)
              /\ last_call.failed_uids =
                    PickFrom(last_call.uids, (1..Len(last_call.uids)) \ OkPositions, 1)
              /\ last_call.log = <<>>

\* C27 witness: two uids were pinged, the first timed out and the second
\* answered, and each is reported in its list.
C27_Witness ==
    /\ PingCall
    /\ last_call.pc = "returned"
    /\ fwd.pc = "returned"
    /\ Len(last_call.uids) = 2
    /\ last_call.uids[1] # last_call.uids[2]
    /\ last_call.successful_uids = <<last_call.uids[2]>>
    /\ last_call.failed_uids = <<last_call.uids[1]>>

\* ------------------------------------------------------------------ dendrite claims

\* the tasks of the running forward call that have produced their response
DoneTasks == {i \in 1..Len(tasks) : tasks[i].pc = "done"}

\* C4: forward returns one element per input axon, the i-th being the response
\* of the i-th axon, in whatever order the per-axon tasks completed.
C4_InputOrder ==
    returned.pc = "returned" =>
        /\ Len(returned.value) = Len(fwd.axons)
        /\ \A i \in 1..Len(fwd.axons) :
              /\ tasks[i].s.axon = PyInt(fwd.axons[i])
              /\ returned.value[i] = task_result(tasks[i].s, fwd.deserialize)
              /\ ~fwd.deserialize => returned.value[i].synapse.axon = PyInt(fwd.axons[i])

\* C4 witness: two different axons, the second task finished first, and the
\* returned synapses are still in the order of the axons.
C4_Witness ==
    /\ returned.pc = "returned"
    /\ ~fwd.deserialize
    /\ Len(fwd.axons) = 2
    /\ fwd.axons[1] # fwd.axons[2]
    /\ completed = <<2, 1>>
    /\ returned.value[1].synapse.axon = PyInt(fwd.axons[1])
    /\ returned.value[2].synapse.axon = PyInt(fwd.axons[2])

\* C5: a response whose measured time is >= timeout carries 408 "Timeout", one
\* whose measured time is < timeout carries 200 "OK", and there is no other status.
C5_StatusByElapsed ==
    \A i \in DoneTasks :
        /\ tasks[i].actual_time >= fwd.timeout =>
              /\ tasks[i].s.dendrite.status_code = PyInt(408)
              /\ tasks[i].s.dendrite.status_message = "Timeout"
        /\ tasks[i].actual_time < fwd.timeout =>
              /\ tasks[i].s.dendrite.status_code = PyInt(200)
              /\ tasks[i].s.dendrite.status_message = "OK"
        /\ tasks[i].s.dendrite.status_code \in {PyInt(200), PyInt(408)}

\* C5 witness: a response measured at exactly the timeout is a Timeout.
C5_Witness ==
    \E i \in DoneTasks :
        /\ tasks[i].actual_time = fwd.timeout
        /\ tasks[i].s.dendrite.status_code = PyInt(408)
        /\ tasks[i].s.dendrite.status_message = "Timeout"

\* C6 as stated: a Timeout response has its output at the pre-call default of
\* the message (unset, or 0), not derived from the input.
C6_TimeoutOutputDefault ==
    \A i \in DoneTasks :
        tasks[i].s.dendrite.status_code = PyInt(408) =>
            tasks[i].s.dummy_output \in {fwd.synapse.dummy_output, PyInt(0)}

\* C6 amended: a Timeout response has its output set to the input of the
\* message (42 for input 42, and not 84) when the message has a dummy_input,
\* and to 0 when it has none.
C6_TimeoutOutputIsInput ==
    \A i \in DoneTasks :
        tasks[i].s.dendrite.status_code = PyInt(408) =>
            tasks[i].s.dummy_output =
                IF has_dummy_input(fwd.synapse) THEN fwd.synapse.dummy_input ELSE PyInt(0)

\* C6 witness: a Timeout response to input 42 whose output is 42.
C6_Witness ==
    \E i \in DoneTasks :
        /\ fwd.synapse = Dummy(42)
        /\ tasks[i].s.dendrite.status_code = PyInt(408)
        /\ tasks[i].s.dummy_output = PyInt(42)

\* C7: a Success response to a message with integer input x has output 2 * x.
C7_SuccessDoubles ==
    \A i \in DoneTasks :
        (tasks[i].s.dendrite.status_code = PyInt(200) /\ has_dummy_input(fwd.synapse)) =>
            tasks[i].s.dummy_output = PyInt(2 * fwd.synapse.dummy_input[1])

\* C7 witness: a Success response to input 42 whose output is 84.
C7_Witness ==
    \E i \in DoneTasks :
        /\ fwd.synapse = Dummy(42)
        /\ tasks[i].actual_time < fwd.timeout
        /\ tasks[i].s.dendrite.status_code = PyInt(200)
        /\ tasks[i].s.dummy_output = PyInt(84)

\* C23: no unit of a send blocks another. A unit is suspended once, in its
\* delay; every unit has started its delay before the delay of any unit has
\* elapsed; a suspended unit can resume whatever the other units are doing;
\* and a step of one unit changes that unit's own copy only, not another
\* unit, the dendrite or the caller's message.
C23_NoUnitBlocksAnother ==
    /\ []((\E i \in 1..Len(tasks) : tasks[i].pc = "done") =>
             \A j \in 1..Len(tasks) : tasks[j].pc # "created")
    /\ [](fwd.pc = "gathering" =>
             /\ (\E j \in 1..Len(tasks) : tasks[j].pc = "created") =>
                    ENABLED (\E i \in 1..MaxAxons : StartTask(i))
             /\ (\A j \in 1..Len(tasks) : tasks[j].pc # "created") =>
                    \A i \in 1..Len(tasks) :
                       tasks[i].pc = "sleeping" => ENABLED WakeTask(i))
    /\ [][fwd.pc = "gathering" =>
             /\ dendrite' = dendrite
             /\ fwd'.synapse = fwd.synapse
             /\ Len(tasks') = Len(tasks)
             /\ Cardinality({i \in 1..Len(tasks) : tasks'[i] # tasks[i]}) <= 1
             /\ \A i \in 1..Len(tasks) :
                   \/ tasks'[i] = tasks[i]
                   \/ tasks[i].pc = "created" /\ tasks'[i].pc = "sleeping"
                   \/ tasks[i].pc = "sleeping" /\ tasks'[i].pc = "done"]_vars

\* C23 witness: the second unit has finished while the first, started before
\* it with a delay no longer than its own, is still suspended.
C23_Witness ==
    /\ fwd.pc = "gathering"
    /\ Len(tasks) = 2
    /\ tasks[1].pc = "sleeping"
    /\ tasks[2].pc = "done"
    /\ tasks[1].process_time <= tasks[2].process_time
    /\ completed = <<2>>

\* C11: a call with streaming=True, through forward or __call__, raises
\* NotImplementedError at once: no coroutine is created, so nothing is copied,
\* drawn or slept, and nothing is returned.
C11_StreamingFailsFast ==
    (fwd.pc # "idle" /\ fwd.streaming) =>
        /\ fwd.pc = "raised"
        /\ fwd.error = "NotImplementedError"
        /\ tasks = <<>>
        /\ completed = <<>>
        /\ returned.pc = "none"

\* C11 witness: a streaming call for two axons has raised.
C11_Witness ==
    /\ fwd.pc = "raised"
    /\ fwd.streaming
    /\ Len(fwd.axons) = 2
    /\ fwd.error = "NotImplementedError"
    /\ tasks = <<>>

\* C12: from the call on, no step of forward changes the caller's message.
C12_OriginalUntouched ==
    [][fwd.pc # "idle" => fwd'.synapse = fwd.synapse]_vars

\* C12 witness: forward returned a Success and a Timeout, and the caller's
\* message still has its input, no output and no status.
C12_Witness ==
    /\ fwd.pc = "returned"
    /\ \E i, j \in DoneTasks :
          /\ tasks[i].s.dendrite.status_code = PyInt(200)
          /\ tasks[j].s.dendrite.status_code = PyInt(408)
    /\ fwd.synapse = Dummy(42)

\* the steps a gathering forward still has to take: two per coroutine not yet
\* started, one per sleeping coroutine, and its own return
StepsLeft ==
    2 * Cardinality({i \in 1..Len(tasks) : tasks[i].pc = "created"})
    + Cardinality({i \in 1..Len(tasks) : tasks[i].pc = "sleeping"})
    + (IF fwd.pc = "gathering" THEN 1 ELSE 0)

\* C16: no coroutine is cancelled or abandoned: forward returns only when every
\* coroutine has slept its whole delay and produced a response, whatever the
\* timeout. A gathering forward always has a step to take and every step
\* brings the return nearer, so it returns after finitely many steps.
C16_SoftDeadline ==
    /\ [](fwd.pc = "returned" =>
            \A i \in 1..Len(tasks) :
               /\ tasks[i].pc = "done"
               /\ tasks[i].actual_time >= tasks[i].process_time
               /\ tasks[i].s.dendrite.status_code # PyNone)
    /\ [](fwd.pc = "gathering" =>
            ENABLED (\/ \E i \in 1..MaxAxons : StartTask(i)
                     \/ \E i \in 1..MaxAxons : WakeTask(i)
                     \/ Return))
    /\ [][fwd.pc = "gathering" =>
            /\ StepsLeft' < StepsLeft
            /\ \A i \in 1..Len(tasks) :
                  /\ tasks[i].pc = "sleeping" => tasks'[i].pc \in {"sleeping", "done"}
                  /\ tasks[i].pc = "done" => tasks'[i] = tasks[i]]_vars

\* C16 witness: forward returned with a coroutine whose drawn delay was past
\* the timeout and which still slept it in full.
C16_Witness ==
    /\ fwd.pc = "returned"
    /\ Len(tasks) = 2
    /\ \E i \in DoneTasks :
          /\ tasks[i].process_time > fwd.timeout
          /\ tasks[i].actual_time >= tasks[i].process_time
          /\ tasks[i].s.dendrite.status_code = PyInt(408)

\* C19: with deserialize set, a Timeout response to a Dummy with input x is
\* handed back as x itself.
C19_TimeoutDeserializesToInput ==
    (returned.pc = "returned" /\ fwd.deserialize /\ has_dummy_input(fwd.synapse)) =>
        \A i \in 1..Len(tasks) :
            tasks[i].s.dendrite.status_code = PyInt(408) =>
                returned.value[i] = [value |-> fwd.synapse.dummy_input]

\* C19 witness: a timed-out response to input 42 came back as 42.
C19_Witness ==
    /\ returned.pc = "returned"
    /\ fwd.deserialize
    /\ fwd.synapse = Dummy(42)
    /\ \E i \in 1..Len(tasks) :
          /\ tasks[i].s.dendrite.status_message = "Timeout"
          /\ returned.value[i] = [value |-> PyInt(42)]

\* C20: every response, Success or Timeout, carries in dendrite.process_time
\* the time measured for its coroutine, which is set and is at least the drawn
\* delay, itself at least min_time.
C20_LatencyRecorded ==
    \A i \in DoneTasks :
        /\ tasks[i].s.dendrite.process_time # PyNone
        /\ tasks[i].s.dendrite.process_time = PyStr(tasks[i].actual_time)
        /\ tasks[i].actual_time >= tasks[i].process_time
        /\ tasks[i].process_time >= dendrite.min_time

\* C20 witness: a Timeout response with its latency recorded, under a
\* positive min_time.
C20_Witness ==
    \E i \in DoneTasks :
        /\ dendrite.min_time > 0
        /\ tasks[i].s.dendrite.status_code = PyInt(408)
        /\ tasks[i].s.dendrite.process_time = PyStr(tasks[i].actual_time)
        /\ tasks[i].actual_time >= dendrite.min_time

====
